---- MODULE Spec2Model ----
(***************************************************************************)
(* Model of scripts/fetch_stats.py: one run of main() after another.  A    *)
(* run loads data/stats.json, fetches Folding@home and the BOINC projects, *)
(* builds the current snapshot, appends today's entry to the history,      *)
(* computes the trend report, writes the file back and replaces the        *)
(* statistics section of README.md.                                        *)
(*                                                                         *)
(* Dates are proleptic Gregorian ordinals (datetime.date.toordinal), so    *)
(* that comparing two ISO date strings is comparing two integers and       *)
(* date + timedelta can leave the range of datetime.date.                  *)
(* A Python dict is a function whose DOMAIN is its set of keys; None is    *)
(* the empty sequence and a present value v is <<v>>.                      *)
(***************************************************************************)
EXTENDS Integers, Sequences, FiniteSets, TLC

VARIABLES clock, file, config, pc, runs, err, existing_stats, fah_state,
          boinc_state, fah_result, boinc_results, current_stats,
          history_entry, history, trends, readme, ran_days

vars == <<clock, file, config, pc, runs, err, existing_stats, fah_state,
          boinc_state, fah_result, boinc_results, current_stats,
          history_entry, history, trends, readme, ran_days>>

----------------------------------------------------------------------------
(* Program constants *)

HISTORY_MAX_DAYS == 365

DATE_MAX_ORDINAL == 3652059

milestone_targets == <<40000000, 50000000, 75000000, 100000000>>

(* Bounds of the model *)

FirstDay == 739922

MaxLen == 2

MaxTicks == 1

MaxRuns == 1

MaxProjectsLen == 1

MaxFreshRuns == 3

MaxReadmeLen == 4

----------------------------------------------------------------------------
(* Python values *)

None == <<>>

Some(v) == <<v>>

EmptyDict == [k \in {} |-> 0]

Get(d, key, default) == IF key \in DOMAIN d THEN d[key] ELSE default

GetOpt(d, key) == IF key \in DOMAIN d THEN Some(d[key]) ELSE None

Abs(n) == IF n < 0 THEN -n ELSE n

(* round(n / d) for d > 0: Python 3 rounds a float half to even *)
Round(n, d) ==
    LET q == n \div d
        r == n % d
    IN  IF 2 * r < d THEN q
        ELSE IF 2 * r > d THEN q + 1
        ELSE IF q % 2 = 0 THEN q ELSE q + 1

RECURSIVE InsertByDate(_, _)
InsertByDate(e, s) ==
    IF s = <<>> THEN <<e>>
    ELSE IF s[Len(s)].date <= e.date THEN Append(s, e)
    ELSE Append(InsertByDate(e, SubSeq(s, 1, Len(s) - 1)), s[Len(s)])

(* list.sort(key=lambda x: x['date']): stable, ascending *)
RECURSIVE SortByDate(_)
SortByDate(s) ==
    IF s = <<>> THEN <<>>
    ELSE InsertByDate(s[Len(s)], SortByDate(SubSeq(s, 1, Len(s) - 1)))

----------------------------------------------------------------------------
(* The inputs of a run *)

(* the keys of config['profiles']['projects'] *)
Projects == DOMAIN config.projects

(* config.json as main hands it on, after the FAH_USERNAME override:         *)
(* fah_username says whether config['profiles']['folding_at_home'] has the   *)
(* key 'username', user_id whether the project has a non-empty user_id       *)
ConfigPool ==
    { [ fah_username |-> u,
        project_order |-> <<"rosetta", "einstein">>,
        projects |-> [ rosetta  |-> [user_id |-> TRUE,  fallback_credits |-> 0],
                       einstein |-> [user_id |-> FALSE, fallback_credits |-> 0] ] ] :
      u \in BOOLEAN }

Offsets == {0, 7, 30, 365}

(* boinc_credits and fah_score of an earlier day *)
HistValues == { <<100, 0>>, <<39450000, 500>>, <<39800000, 500>> }

LiveCredits == {250, 39800000}

LiveFah == {800}

EntryPool ==
    { [ date |-> FirstDay - o, boinc_credits |-> v[1], fah_score |-> v[2],
        fah_wus |-> 0, projects |-> [p \in {"rosetta"} |-> v[1]] ] :
      o \in Offsets, v \in HistValues }

RECURSIVE SeqsUpTo(_, _)
SeqsUpTo(S, n) ==
    IF n = 0 THEN {<<>>}
    ELSE LET shorter == SeqsUpTo(S, n - 1)
         IN  shorter \cup { Append(s, e) : s \in { t \in shorter : Len(t) = n - 1 }, e \in S }

FilePool ==
    { [kind |-> "absent"], [kind |-> "unreadable"], [kind |-> "partial"],
      [kind |-> "badutf8"], [kind |-> "json", data |-> EmptyDict] }
    \cup { [kind |-> "json", data |-> [history |-> h]] : h \in SeqsUpTo(EntryPool, MaxLen) }

(* A configuration of six BOINC projects: one is fetched, five have no       *)
(* user_id and count with their fallback_credits                             *)
ProjectsConfigPool ==
    { [ fah_username |-> TRUE,
        project_order |-> <<"rosetta", "einstein", "milkyway", "seti", "lhc", "asteroids">>,
        projects |-> [ rosetta   |-> [user_id |-> TRUE,  fallback_credits |-> 0],
                       einstein  |-> [user_id |-> FALSE, fallback_credits |-> 250],
                       milkyway  |-> [user_id |-> FALSE, fallback_credits |-> 39800000],
                       seti      |-> [user_id |-> FALSE, fallback_credits |-> 250],
                       lhc       |-> [user_id |-> FALSE, fallback_credits |-> 250],
                       asteroids |-> [user_id |-> FALSE, fallback_credits |-> 39800000] ] ] }

(* -1 is an entry dated tomorrow: date.today() is the local date, and the    *)
(* file may have been written where the day had already changed              *)
ProjectsOffsets == {-1, 30}

(* the per-project credits of an earlier entry: every project, or some       *)
(* projects with others missing, or every project at 0                       *)
ProjectsMaps ==
    { [p \in {"rosetta", "einstein", "milkyway", "seti", "lhc", "asteroids"} |-> 100],
      [rosetta |-> 250, einstein |-> 39800000, seti |-> 100, asteroids |-> 39450000],
      [p \in {"rosetta", "einstein", "milkyway", "seti", "lhc", "asteroids"} |-> 0] }

(* entries as create_history_entry writes them, and entries written by an    *)
(* earlier layout of the file that lack one of the metrics                   *)
ProjectsEntryPool ==
    LET full(o, b, f, m) == [ date |-> FirstDay - o, boinc_credits |-> b, fah_score |-> f,
                              fah_wus |-> 0, projects |-> m ]
    IN  { full(o, 600, 500, m) : o \in ProjectsOffsets, m \in ProjectsMaps }
        \cup { full(o, 0, 0, [p \in {"rosetta"} |-> 0]) : o \in ProjectsOffsets }
        \cup { [ date |-> FirstDay - o, fah_score |-> 500, fah_wus |-> 0,
                 projects |-> [p \in {"rosetta"} |-> 100] ] : o \in ProjectsOffsets }
        \cup { [ date |-> FirstDay - o, boinc_credits |-> 600, fah_wus |-> 0,
                 projects |-> [p \in {"rosetta"} |-> 100] ] : o \in ProjectsOffsets }
        \cup { [ date |-> FirstDay - o, boinc_credits |-> 600, fah_score |-> 500,
                 fah_wus |-> 0 ] : o \in ProjectsOffsets }

ProjectsFilePool ==
    { [kind |-> "json", data |-> [history |-> h]] :
        h \in SeqsUpTo(ProjectsEntryPool, MaxProjectsLen) }

----------------------------------------------------------------------------
(* load_existing_stats *)

(* What the body of the try block raises for each content of HISTORY_FILE:  *)
(* open() fails on a file that cannot be opened, the utf-8 decoder fails on  *)
(* bytes that are not utf-8, json.load fails on text that is not a JSON      *)
(* document (an empty or half-written file included).                        *)
ReadRaises(f) ==
    CASE f.kind = "unreadable" -> "IOError"
      [] f.kind = "badutf8"    -> "UnicodeDecodeError"
      [] f.kind = "partial"    -> "JSONDecodeError"
      [] OTHER                 -> "none"

(* except (json.JSONDecodeError, IOError) *)
LoadCaught == {"JSONDecodeError", "IOError"}

LoadEscapes(f) ==
    IF f.kind = "absent" \/ ReadRaises(f) \in LoadCaught \cup {"none"}
    THEN "none" ELSE ReadRaises(f)

load_existing_stats(f) ==
    IF f.kind = "json" THEN f.data ELSE EmptyDict

----------------------------------------------------------------------------
(* build_current_stats and create_history_entry *)

RECURSIVE SumOver(_, _)
SumOver(f, S) ==
    IF S = {} THEN 0
    ELSE LET x == CHOOSE y \in S : TRUE IN f[x] + SumOver(f, S \ {x})

ProjectCredits(cfg, boinc_data, key) ==
    IF boinc_data[key] # None THEN boinc_data[key][1].credits
    ELSE IF cfg.projects[key].fallback_credits # 0 THEN cfg.projects[key].fallback_credits
    ELSE 0

build_current_stats(cfg, fah_data, boinc_data) ==
    LET keys     == DOMAIN cfg.projects
        credits  == [k \in keys |-> ProjectCredits(cfg, boinc_data, k)]
        counted  == { k \in keys : credits[k] > 0 }
        base     == [ projects |-> [k \in keys |->
                                      [credits |-> credits[k], live |-> boinc_data[k] # None]],
                      totals   |-> [boinc_credits  |-> SumOver(credits, counted),
                                    boinc_projects |-> Cardinality(counted)] ]
    IN  IF fah_data # None
        THEN base @@ [folding_at_home |-> [score      |-> Get(fah_data[1], "score", 0),
                                           work_units |-> Get(fah_data[1], "wus", 0)]]
        ELSE base

create_history_entry(stats, today) ==
    LET fah == Get(stats, "folding_at_home", EmptyDict)
        positive == { k \in DOMAIN stats.projects : stats.projects[k].credits > 0 }
    IN  [ date          |-> today,
          boinc_credits |-> stats.totals.boinc_credits,
          fah_score     |-> Get(fah, "score", 0),
          fah_wus       |-> Get(fah, "work_units", 0),
          projects      |-> [k \in positive |-> stats.projects[k].credits] ]

----------------------------------------------------------------------------
(* update_history *)

(* update_history without the removal of the entry that has the new date *)
update_history_keeps_today(existing, new_entry, today_now) ==
    LET hist0   == Get(existing, "history", <<>>)
        sorted  == SortByDate(Append(hist0, new_entry))
        cutoff_date == today_now - HISTORY_MAX_DAYS
    IN  SelectSeq(sorted, LAMBDA h : h.date >= cutoff_date)

(* update_history dropping the entry dated exactly at the cutoff *)
update_history_trims_strictly(existing, new_entry, today_now) ==
    LET hist0   == Get(existing, "history", <<>>)
        today   == new_entry.date
        removed == SelectSeq(hist0, LAMBDA h : h.date # today)
        sorted  == SortByDate(Append(removed, new_entry))
        cutoff_date == today_now - HISTORY_MAX_DAYS
    IN  SelectSeq(sorted, LAMBDA h : h.date > cutoff_date)

update_history(existing, new_entry, today_now) ==
    LET hist0   == Get(existing, "history", <<>>)
        today   == new_entry.date
        removed == SelectSeq(hist0, LAMBDA h : h.date # today)
        sorted  == SortByDate(Append(removed, new_entry))
        cutoff_date == today_now - HISTORY_MAX_DAYS
    IN  SelectSeq(sorted, LAMBDA h : h.date >= cutoff_date)

----------------------------------------------------------------------------
(* calculate_trends *)

(* `if len(history) < 2`, with one more point asked for *)
InsufficientData_three(h) == Len(h) < 3

(* if len(history) < 2 *)
InsufficientData(h) == Len(h) < 2

(* get_value_days_ago taking the first candidate instead of the last *)
get_value_days_ago_first(h, today, days, key) ==
    LET target_date == today - days
        candidates  == SelectSeq(h, LAMBDA e : e.date <= target_date)
    IN  IF candidates # <<>>
        THEN Some(Get(candidates[1], key, 0))
        ELSE None

(* def get_value_days_ago(days, key), with the history and today it closes over *)
get_value_days_ago(h, today, days, key) ==
    LET target_date == today - days
        candidates  == SelectSeq(h, LAMBDA e : e.date <= target_date)
    IN  IF candidates # <<>>
        THEN Some(Get(candidates[Len(candidates)], key, 0))
        ELSE None

(* the two keys a window adds to boinc_trends or fah_trends *)
WindowKeys(days, delta) ==
    CASE days = 7  -> [last_7_days  |-> delta, avg_per_day_7d  |-> Round(delta, 7)]
      [] days = 30 -> [last_30_days |-> delta, avg_per_day_30d |-> Round(delta, 30)]
      [] days = 90 -> [last_90_days |-> delta, avg_per_day_90d |-> Round(delta, 90)]

BoincWindow(h, today, current_boinc, days) ==
    LET ago == get_value_days_ago(h, today, days, "boinc_credits")
    IN  IF ago # None THEN WindowKeys(days, current_boinc - ago[1]) ELSE EmptyDict

(* the all-time average anchored at the last entry instead of the first *)
BoincAllTime_from_last(h, today, current_boinc) ==
    LET first_entry  == h[Len(h)]
        days_tracked == today - first_entry.date
        total_gain   == current_boinc - Get(first_entry, "boinc_credits", current_boinc)
    IN  IF Len(h) >= 2 /\ days_tracked > 0
        THEN [avg_per_day_alltime |-> Round(total_gain, days_tracked)]
        ELSE EmptyDict

BoincAllTime(h, today, current_boinc) ==
    LET first_entry  == h[1]
        days_tracked == today - first_entry.date
        total_gain   == current_boinc - Get(first_entry, "boinc_credits", current_boinc)
    IN  IF Len(h) >= 2 /\ days_tracked > 0
        THEN [avg_per_day_alltime |-> Round(total_gain, days_tracked)]
        ELSE EmptyDict

boinc_trends(h, today, current_boinc) ==
    BoincWindow(h, today, current_boinc, 7) @@ BoincWindow(h, today, current_boinc, 30)
      @@ BoincWindow(h, today, current_boinc, 90) @@ BoincAllTime(h, today, current_boinc)

(* `a or b` on an optional number: None and 0 are both false *)
Truthy(o) == o # None /\ o[1] # 0

daily_avg(bt) ==
    IF Truthy(GetOpt(bt, "avg_per_day_30d")) THEN bt.avg_per_day_30d
    ELSE IF Truthy(GetOpt(bt, "avg_per_day_7d")) THEN bt.avg_per_day_7d
    ELSE IF Truthy(GetOpt(bt, "avg_per_day_alltime")) THEN bt.avg_per_day_alltime
    ELSE 0

days_to_target(target, current_boinc, avg) == (target - current_boinc) \div avg

(* the targets the loop makes a projection for, in the order of the list *)
OpenTargets(current_boinc) ==
    SelectSeq(milestone_targets, LAMBDA t : current_boinc < t)

(* date.today() + timedelta(days=days_to_target) raises OverflowError past date.max *)
MilestonesOverflow(today, current_boinc, avg) ==
    /\ avg > 0
    /\ \E i \in 1..Len(OpenTargets(current_boinc)) :
          today + days_to_target(OpenTargets(current_boinc)[i], current_boinc, avg)
              > DATE_MAX_ORDINAL

milestones(today, current_boinc, avg) ==
    IF avg > 0
    THEN [ i \in 1..Len(OpenTargets(current_boinc)) |->
             LET target == OpenTargets(current_boinc)[i]
             IN  [ target         |-> target,
                   remaining      |-> target - current_boinc,
                   days_to_reach  |-> days_to_target(target, current_boinc, avg),
                   estimated_date |-> today + days_to_target(target, current_boinc, avg) ] ]
    ELSE <<>>

FahWindow(h, today, current_fah, days) ==
    LET ago == get_value_days_ago(h, today, days, "fah_score")
    IN  IF ago # None /\ ago[1] > 0 THEN WindowKeys(days, current_fah - ago[1]) ELSE EmptyDict

fah_trends(h, today, current_fah) ==
    FahWindow(h, today, current_fah, 7) @@ FahWindow(h, today, current_fah, 30)

(* credits_30d_ago of one project: None without a candidate or without the key *)
credits_30d_ago(h, today, key) ==
    LET target_date == today - 30
        candidates  == SelectSeq(h, LAMBDA e : e.date <= target_date)
    IN  IF candidates # <<>>
        THEN GetOpt(Get(candidates[Len(candidates)], "projects", EmptyDict), key)
        ELSE None

(* the loop over current_stats['projects'], in the order of the dict *)
RECURSIVE project_activity(_, _, _, _)
project_activity(h, today, stats, order) ==
    IF order = <<>> THEN <<>>
    ELSE LET key  == order[Len(order)]
             rest == project_activity(h, today, stats, SubSeq(order, 1, Len(order) - 1))
             current_credits == stats.projects[key].credits
             ago  == credits_30d_ago(h, today, key)
         IN  IF current_credits # 0 /\ ago # None /\ current_credits - ago[1] > 0
             THEN Append(rest, [ key         |-> key,
                                 gain_30d    |-> current_credits - ago[1],
                                 avg_per_day |-> Round(current_credits - ago[1], 30) ])
             ELSE rest

(* the insertion of a sort that puts a later element before its equals *)
RECURSIVE InsertByGain_ties_reversed(_, _)
InsertByGain_ties_reversed(e, s) ==
    IF s = <<>> THEN <<e>>
    ELSE IF s[Len(s)].gain_30d > e.gain_30d THEN Append(s, e)
    ELSE Append(InsertByGain_ties_reversed(e, SubSeq(s, 1, Len(s) - 1)), s[Len(s)])

RECURSIVE InsertByGain(_, _)
InsertByGain(e, s) ==
    IF s = <<>> THEN <<e>>
    ELSE IF s[Len(s)].gain_30d >= e.gain_30d THEN Append(s, e)
    ELSE Append(InsertByGain(e, SubSeq(s, 1, Len(s) - 1)), s[Len(s)])

(* list.sort(key=lambda x: x['gain_30d'], reverse=True): stable, descending *)
RECURSIVE SortByGain(_)
SortByGain(s) ==
    IF s = <<>> THEN <<>>
    ELSE InsertByGain(s[Len(s)], SortByGain(SubSeq(s, 1, Len(s) - 1)))

Top5(s) == SubSeq(s, 1, IF Len(s) < 5 THEN Len(s) ELSE 5)

trends_header(h) ==
    [ data_points   |-> Len(h),
      history_start |-> IF h # <<>> THEN Some(h[1].date) ELSE None,
      history_end   |-> IF h # <<>> THEN Some(h[Len(h)].date) ELSE None ]

(* the exception calculate_trends lets escape, "none" when it returns *)
calculate_trends_raises(h, stats, order, today) ==
    IF ~InsufficientData(h)
       /\ MilestonesOverflow(today, stats.totals.boinc_credits,
                             daily_avg(boinc_trends(h, today, stats.totals.boinc_credits)))
    THEN "OverflowError" ELSE "none"

calculate_trends(h, stats, order, today) ==
    IF InsufficientData(h)
    THEN trends_header(h) @@ [status |-> "insufficient_data"]
    ELSE LET current_boinc == stats.totals.boinc_credits
             current_fah   == Get(Get(stats, "folding_at_home", EmptyDict), "score", 0)
             bt            == boinc_trends(h, today, current_boinc)
         IN  trends_header(h) @@
             [ boinc      |-> bt,
               milestones |-> milestones(today, current_boinc, daily_avg(bt)),
               fah        |-> fah_trends(h, today, current_fah),
               most_active_projects |->
                   Top5(SortByGain(project_activity(h, today, stats, order))) ]

----------------------------------------------------------------------------
(* update_readme *)

(* README.md is a sequence of pieces of text: a piece is one of the two      *)
(* markers, the generated statistics section, or other text                  *)
start_marker == "LIVE_STATS_START"

end_marker == "LIVE_STATS_END"

(* the section built from current_stats: "\n" + content *)
content == <<"content">>

Contains(text, piece) == \E i \in 1..Len(text) : text[i] = piece

FirstIndex(text, piece) == CHOOSE i \in 1..Len(text) :
                              text[i] = piece /\ \A j \in 1..(i - 1) : text[j] # piece

(* text.split(piece)[0] *)
SplitHead(text, piece) ==
    IF Contains(text, piece) THEN SubSeq(text, 1, FirstIndex(text, piece) - 1) ELSE text

(* text.split(piece)[1], for a text that contains the piece *)
SplitSecond(text, piece) ==
    SplitHead(SubSeq(text, FirstIndex(text, piece) + 1, Len(text)), piece)

(* the new content of README.md, None when there is no such file *)
update_readme(existing) ==
    IF existing = None THEN None
    ELSE IF Contains(existing[1], start_marker) /\ Contains(existing[1], end_marker)
    THEN LET before == SplitHead(existing[1], start_marker)
             after  == SplitSecond(existing[1], end_marker)
         IN  Some(before \o <<start_marker>> \o content \o <<end_marker>> \o after)
    ELSE existing

(* a README with one statistics section *)
ReadmeOneSection ==
    { Some(<<"text", start_marker, "text", end_marker, "text">>) }

(* no README.md, or any README of up to MaxReadmeLen pieces *)
ReadmePool ==
    {None} \cup { Some(t) : t \in SeqsUpTo({"text", start_marker, end_marker}, MaxReadmeLen) }

----------------------------------------------------------------------------
InitWith(files, configs, readmes) ==
    /\ clock = FirstDay
    /\ file \in files
    /\ config \in configs
    /\ readme \in readmes
    /\ ran_days = {}
    /\ pc = "idle"
    /\ runs = 0
    /\ err = "none"
    /\ existing_stats = EmptyDict
    /\ fah_state = "created"
    /\ boinc_state = [p \in Projects |-> "created"]
    /\ fah_result = None
    /\ boinc_results = [p \in Projects |-> None]
    /\ current_stats = EmptyDict
    /\ history_entry = EmptyDict
    /\ history = <<>>
    /\ trends = EmptyDict

Init == InitWith(FilePool, ConfigPool, ReadmeOneSection)

StartRunUpTo(n) ==
    /\ pc \in {"idle", "done", "crashed"}
    /\ runs < n
    /\ pc' = "load"
    /\ runs' = runs + 1
    /\ err' = "none"
    /\ existing_stats' = EmptyDict
    /\ fah_state' = "created"
    /\ boinc_state' = [p \in Projects |-> "created"]
    /\ fah_result' = None
    /\ boinc_results' = [p \in Projects |-> None]
    /\ current_stats' = EmptyDict
    /\ history_entry' = EmptyDict
    /\ history' = <<>>
    /\ trends' = EmptyDict
    /\ UNCHANGED <<clock, file, config>>
    /\ UNCHANGED <<readme, ran_days>>

StartRun == StartRunUpTo(MaxRuns)

(* The system clock passes midnight.  date.today() is read again by          *)
(* create_history_entry, by update_history and by calculate_trends, so the    *)
(* tick is placed before each of these reads (and between runs).              *)
Tick ==
    /\ pc \in {"idle", "done", "crashed", "update", "trends"}
    /\ clock < FirstDay + MaxTicks
    /\ clock' = clock + 1
    /\ UNCHANGED <<file, config, pc, runs, err, existing_stats, fah_state, boinc_state,
                   fah_result, boinc_results, current_stats, history_entry, history, trends>>
    /\ UNCHANGED <<readme, ran_days>>

(* main: existing_stats = load_existing_stats() *)
Load ==
    /\ pc = "load"
    /\ IF LoadEscapes(file) = "none"
       THEN /\ existing_stats' = load_existing_stats(file)
            /\ pc' = "fetch"
            /\ err' = err
       ELSE /\ existing_stats' = existing_stats
            /\ pc' = "crashed"
            /\ err' = LoadEscapes(file)
    /\ UNCHANGED <<clock, file, config, runs, fah_state, boinc_state, fah_result,
                   boinc_results, current_stats, history_entry, history, trends>>
    /\ UNCHANGED <<readme, ran_days>>

(* fetch_all_projects: config['profiles']['folding_at_home']['username']     *)
(* raises KeyError without the key; otherwise `await fah_task` runs the      *)
(* Folding@home coroutine up to its session.get                              *)
FahStart ==
    /\ pc = "fetch"
    /\ fah_state = "created"
    /\ IF config.fah_username
       THEN /\ fah_state' = "inflight"
            /\ pc' = pc
            /\ err' = err
       ELSE /\ fah_state' = fah_state
            /\ pc' = "crashed"
            /\ err' = "KeyError"
    /\ UNCHANGED <<clock, file, config, runs, existing_stats, boinc_state,
                   fah_result, boinc_results, current_stats, history_entry, history, trends>>
    /\ UNCHANGED <<readme, ran_days>>

(* fetch_fah_data returns: the decoded body of a 200 response, or None after  *)
(* another status, a timeout or a transport error (except Exception)          *)
FahFinish ==
    /\ pc = "fetch"
    /\ fah_state = "inflight"
    /\ \E outcome \in {None} \cup { Some([score |-> s, wus |-> 0]) : s \in LiveFah } :
          fah_result' = outcome
    /\ fah_state' = "done"
    /\ UNCHANGED <<clock, file, config, pc, runs, err, existing_stats, boinc_state,
                   boinc_results, current_stats, history_entry, history, trends>>
    /\ UNCHANGED <<readme, ran_days>>

(* asyncio.gather over boinc_tasks: every BOINC coroutine becomes a task and     *)
(* runs to its first suspension; one without user_id returns None at once     *)
BoincGather ==
    /\ pc = "fetch"
    /\ fah_state = "done"
    /\ \A p \in Projects : boinc_state[p] = "created"
    /\ boinc_state' = [p \in Projects |->
                          IF config.projects[p].user_id THEN "inflight" ELSE "done"]
    /\ UNCHANGED <<clock, file, config, pc, runs, err, existing_stats, fah_state,
                   fah_result, boinc_results, current_stats, history_entry, history, trends>>
    /\ UNCHANGED <<readme, ran_days>>

(* fetch_boinc_project returns: the parsed credits of a 200 response holding  *)
(* <user>, or None after anything else                                        *)
BoincFinish(p) ==
    /\ pc = "fetch"
    /\ boinc_state[p] = "inflight"
    /\ \E outcome \in {None} \cup { Some([credits |-> c, avg_credit |-> 0]) : c \in LiveCredits } :
          boinc_results' = [boinc_results EXCEPT ![p] = outcome]
    /\ boinc_state' = [boinc_state EXCEPT ![p] = "done"]
    /\ UNCHANGED <<clock, file, config, pc, runs, err, existing_stats, fah_state,
                   fah_result, current_stats, history_entry, history, trends>>
    /\ UNCHANGED <<readme, ran_days>>

(* gather has every result: fetch_all_projects returns *)
FetchReturn ==
    /\ pc = "fetch"
    /\ fah_state = "done"
    /\ \A p \in Projects : boinc_state[p] = "done"
    /\ pc' = "build"
    /\ UNCHANGED <<clock, file, config, runs, err, existing_stats, fah_state, boinc_state,
                   fah_result, boinc_results, current_stats, history_entry, history, trends>>
    /\ UNCHANGED <<readme, ran_days>>

(* main: build_current_stats, then create_history_entry *)
BuildCurrentStats ==
    /\ pc = "build"
    /\ current_stats' = build_current_stats(config, fah_result, boinc_results)
    /\ history_entry' = create_history_entry(current_stats', clock)
    /\ pc' = "update"
    /\ UNCHANGED <<clock, file, config, runs, err, existing_stats, fah_state, boinc_state,
                   fah_result, boinc_results, history, trends>>
    /\ UNCHANGED <<readme, ran_days>>

(* main: history = update_history(existing_stats, history_entry) *)
UpdateHistory ==
    /\ pc = "update"
    /\ history' = update_history(existing_stats, history_entry, clock)
    /\ pc' = "trends"
    /\ UNCHANGED <<clock, file, config, runs, err, existing_stats, fah_state, boinc_state,
                   fah_result, boinc_results, current_stats, history_entry, trends>>
    /\ UNCHANGED <<readme, ran_days>>

(* a calculate_trends that takes the current entry off the list it is given *)
CalculateTrends_popping_history ==
    /\ pc = "trends"
    /\ LET raised == calculate_trends_raises(history, current_stats, config.project_order, clock)
       IN  IF raised = "none"
           THEN /\ trends' = calculate_trends(history, current_stats, config.project_order, clock)
                /\ pc' = "save"
                /\ err' = err
           ELSE /\ trends' = trends
                /\ pc' = "crashed"
                /\ err' = raised
    /\ history' = SubSeq(history, 1, Len(history) - 1)
    /\ UNCHANGED <<clock, file, config, runs, existing_stats, fah_state, boinc_state,
                   fah_result, boinc_results, current_stats, history_entry>>
    /\ UNCHANGED <<readme, ran_days>>

(* main: trends = calculate_trends(history, current_stats) *)
CalculateTrends ==
    /\ pc = "trends"
    /\ LET raised == calculate_trends_raises(history, current_stats, config.project_order, clock)
       IN  IF raised = "none"
           THEN /\ trends' = calculate_trends(history, current_stats, config.project_order, clock)
                /\ pc' = "save"
                /\ err' = err
           ELSE /\ trends' = trends
                /\ pc' = "crashed"
                /\ err' = raised
    /\ UNCHANGED <<clock, file, config, runs, existing_stats, fah_state, boinc_state,
                   fah_result, boinc_results, current_stats, history_entry, history>>
    /\ UNCHANGED <<readme, ran_days>>

(* save_stats: open(HISTORY_FILE, 'w') truncates the file in place *)
SaveOpen ==
    /\ pc = "save"
    /\ file' = [kind |-> "partial"]
    /\ pc' = "save_write"
    /\ UNCHANGED <<clock, config, runs, err, existing_stats, fah_state, boinc_state,
                   fah_result, boinc_results, current_stats, history_entry, history, trends>>
    /\ UNCHANGED <<readme, ran_days>>

(* save_stats: json.dump has written the whole document and the file is      *)
(* closed; ran_days records the day of the entry the run has saved           *)
SaveWrite ==
    /\ pc = "save_write"
    /\ file' = [kind |-> "json",
                data |-> [current |-> current_stats, history |-> history, trends |-> trends]]
    /\ pc' = "readme"
    /\ ran_days' = ran_days \cup {history_entry.date}
    /\ UNCHANGED <<clock, config, runs, err, existing_stats, fah_state, boinc_state,
                   fah_result, boinc_results, current_stats, history_entry, history, trends>>
    /\ UNCHANGED readme

(* the process is killed between the open and the end of the write *)
Kill ==
    /\ pc = "save_write"
    /\ pc' = "crashed"
    /\ err' = "killed"
    /\ UNCHANGED <<clock, file, config, runs, existing_stats, fah_state, boinc_state,
                   fah_result, boinc_results, current_stats, history_entry, history, trends>>
    /\ UNCHANGED <<readme, ran_days>>

(* main: update_readme, then the summary *)
UpdateReadme ==
    /\ pc = "readme"
    /\ readme' = update_readme(readme)
    /\ pc' = "done"
    /\ UNCHANGED <<clock, file, config, runs, err, existing_stats, fah_state, boinc_state,
                   fah_result, boinc_results, current_stats, history_entry, history, trends>>
    /\ UNCHANGED ran_days

Next ==
    \/ StartRun
    \/ Tick
    \/ Load
    \/ FahStart
    \/ FahFinish
    \/ BoincGather
    \/ \E p \in Projects : BoincFinish(p)
    \/ FetchReturn
    \/ BuildCurrentStats
    \/ UpdateHistory
    \/ CalculateTrends
    \/ SaveOpen
    \/ SaveWrite
    \/ Kill
    \/ UpdateReadme

Spec == Init /\ [][Next]_vars

(* Runs that start without data/stats.json, days apart: between two runs the *)
(* clock moves on to a later one of the days below, and during a run it can  *)
(* pass midnight before update_history or before calculate_trends reads it.  *)
(* No run is interrupted while it saves.                                     *)
RunDays == { FirstDay, FirstDay + 1, FirstDay + HISTORY_MAX_DAYS, FirstDay + HISTORY_MAX_DAYS + 1 }

AdvanceDays ==
    /\ \E d \in RunDays :
          /\ d > clock
          /\ pc \in {"idle", "done", "crashed"} \/ (d = clock + 1 /\ pc \in {"update", "trends"})
          /\ clock' = d
    /\ UNCHANGED <<file, config, pc, runs, err, existing_stats, fah_state, boinc_state,
                   fah_result, boinc_results, current_stats, history_entry, history, trends>>
    /\ UNCHANGED <<readme, ran_days>>

StartFreshRun == StartRunUpTo(MaxFreshRuns)

InitFresh == InitWith({[kind |-> "absent"]}, ConfigPool, ReadmeOneSection)

NextFresh ==
    \/ StartFreshRun
    \/ AdvanceDays
    \/ Load
    \/ FahStart
    \/ FahFinish
    \/ BoincGather
    \/ \E p \in Projects : BoincFinish(p)
    \/ FetchReturn
    \/ BuildCurrentStats
    \/ UpdateHistory
    \/ CalculateTrends
    \/ SaveOpen
    \/ SaveWrite
    \/ UpdateReadme

SpecFresh == InitFresh /\ [][NextFresh]_vars

(* a first run in a repository with any README *)
InitReadme == InitWith({[kind |-> "absent"]}, ConfigPool, ReadmePool)

SpecReadme == InitReadme /\ [][Next]_vars

(* runs on a six-project configuration and a history of mixed entries *)
InitProjects == InitWith(ProjectsFilePool, ProjectsConfigPool, ReadmeOneSection)

SpecProjects == InitProjects /\ [][Next]_vars

----------------------------------------------------------------------------
(* Properties of update_history, load_existing_stats, save_stats and          *)
(* fetch_all_projects                                                         *)

LoadedHistory == Get(existing_stats, "history", <<>>)

DatesOf(h) == { h[i].date : i \in 1..Len(h) }

CountDate(h, d) == Cardinality({ i \in 1..Len(h) : h[i].date = d })

StrictlyAscending(h) == \A i \in 1..Len(h) - 1 : h[i].date < h[i + 1].date

(* the step of main that calls update_history *)
UpdateStep == pc = "update" /\ pc' = "trends"

ReplacedByNew(h, x) ==
    /\ \E i \in 1..Len(h) : h[i] = x
    /\ \A i \in 1..Len(h) : h[i].date = x.date => h[i] = x

(* C1, as claimed: whenever the new entry's date is already in the loaded     *)
(* history S, update_history returns a history as long as S whose entry for   *)
(* that date is the new entry.                                                *)
C1_SameLengthForEveryHistory ==
    [][ (UpdateStep /\ history_entry.date \in DatesOf(LoadedHistory))
          => (Len(history') = Len(LoadedHistory) /\ ReplacedByNew(history', history_entry)) ]_vars

(* C1, amended: when exactly one entry of S has the new entry's date and no   *)
(* entry of S is older than today - HISTORY_MAX_DAYS (today as update_history *)
(* reads it), update_history returns a history as long as S whose entry for   *)
(* that date is the new entry.                                                *)
C1_SameLengthWithinWindow ==
    [][ (/\ UpdateStep
         /\ CountDate(LoadedHistory, history_entry.date) = 1
         /\ \A i \in 1..Len(LoadedHistory) :
               LoadedHistory[i].date >= clock - HISTORY_MAX_DAYS)
          => (Len(history') = Len(LoadedHistory) /\ ReplacedByNew(history', history_entry)) ]_vars

(* C1, witness: update_history has replaced today's entry of a two-entry      *)
(* history by a different new entry, and the length is still two.             *)
C1_Witness ==
    /\ pc = "trends"
    /\ Len(LoadedHistory) = 2
    /\ CountDate(LoadedHistory, history_entry.date) = 1
    /\ \A i \in 1..2 : LoadedHistory[i] # history_entry
    /\ Len(history) = 2
    /\ ReplacedByNew(history, history_entry)

(* C2, as claimed: for every loaded history, the history update_history       *)
(* returns has strictly ascending dates and no entry older than               *)
(* today - HISTORY_MAX_DAYS.                                                  *)
C2_StrictlyAscendingAndTrimmed ==
    [][ UpdateStep
          => (/\ StrictlyAscending(history')
              /\ \A i \in 1..Len(history') : history'[i].date >= clock - HISTORY_MAX_DAYS) ]_vars

(* C3, as claimed: when the process is killed during the write of save_stats  *)
(* and the run had loaded a history from the file, the file can still be      *)
(* loaded and still holds that history.                                       *)
C3_CrashKeepsPreviousCopy ==
    (pc = "crashed" /\ err = "killed" /\ "history" \in DOMAIN existing_stats)
      => (/\ LoadEscapes(file) = "none"
          /\ Get(load_existing_stats(file), "history", <<>>) = existing_stats.history)

(* C4, as claimed: load_existing_stats raises nothing, and after a file that  *)
(* is absent or cannot be parsed the run goes on with an empty result.        *)
C4_LoadNeverRaises ==
    /\ err \notin {"IOError", "JSONDecodeError", "UnicodeDecodeError"}
    /\ (pc = "fetch" /\ file.kind # "json") => existing_stats = EmptyDict

(* C5, as claimed: while the Folding@home request is outstanding, the fetch   *)
(* of every BOINC project that has a user_id has been started, and the run    *)
(* builds its snapshot with every fetch returned.                             *)
C5_FetchesDoNotWaitForEachOther ==
    /\ (pc = "fetch" /\ fah_state = "inflight")
         => \A p \in Projects : config.projects[p].user_id => boinc_state[p] # "created"
    /\ pc = "build" => (fah_state = "done" /\ \A p \in Projects : boinc_state[p] = "done")

----------------------------------------------------------------------------
(* Properties of calculate_trends                                             *)

(* main holds the report calculate_trends returned *)
ReportReady ==
    \/ pc \in {"save", "save_write", "readme", "done"}
    \/ pc = "crashed" /\ err = "killed"

(* the step of main that calls calculate_trends *)
TrendsStep == pc = "trends" /\ pc' # "trends"

Windows == {7, 30, 90}

LastKey(w) ==
    CASE w = 7 -> "last_7_days" [] w = 30 -> "last_30_days" [] w = 90 -> "last_90_days"

AvgKey(w) ==
    CASE w = 7 -> "avg_per_day_7d" [] w = 30 -> "avg_per_day_30d" [] w = 90 -> "avg_per_day_90d"

CurrentBoinc == current_stats.totals.boinc_credits

CurrentFah == Get(Get(current_stats, "folding_at_home", EmptyDict), "score", 0)

(* C6: a report made from a history of fewer than 2 distinct dates has status *)
(* insufficient_data, the point count, and no boinc, fah, milestones or       *)
(* most_active_projects part; one made from 2 or more distinct dates has not   *)
(* that status.                                                                *)
C6_InsufficientData ==
    ReportReady =>
      IF Cardinality(DatesOf(history)) < 2
      THEN /\ Get(trends, "status", "absent") = "insufficient_data"
           /\ Get(trends, "data_points", -1) = Len(history)
           /\ DOMAIN trends \cap {"boinc", "fah", "milestones", "most_active_projects"} = {}
      ELSE Get(trends, "status", "absent") # "insufficient_data"

(* C6, witness: the first run on an empty history has saved an                *)
(* insufficient_data report of one point.                                      *)
C6_Witness ==
    /\ pc = "done"
    /\ Len(history) = 1
    /\ Get(trends, "status", "absent") = "insufficient_data"
    /\ trends.data_points = 1

IsRounded(avg, delta, w) == 2 * Abs(w * avg - delta) <= w

(* the part tr of the report holds window w of the metric exactly when the    *)
(* lookback returns a value, with delta = current - value and the rounded     *)
(* average                                                                    *)
WindowFollowsLookback(tr, h, today, key, current, w) ==
    LET ago == get_value_days_ago(h, today, w, key)
    IN  IF ago = None
        THEN LastKey(w) \notin DOMAIN tr /\ AvgKey(w) \notin DOMAIN tr
        ELSE /\ LastKey(w) \in DOMAIN tr
             /\ AvgKey(w) \in DOMAIN tr
             /\ tr[LastKey(w)] = current - ago[1]
             /\ IsRounded(tr[AvgKey(w)], current - ago[1], w)

(* C8, as claimed: calculate_trends on a history of 2 or more entries returns *)
(* a report that holds, for BOINC credits and for the Folding@home score and  *)
(* for each window of 7, 30 and 90 days, the delta and the average exactly    *)
(* when the lookback returns a value.                                         *)
C8_WindowsFollowLookback ==
    [][ (TrendsStep /\ ~InsufficientData(history))
          => /\ pc' = "save"
             /\ \A w \in Windows :
                  /\ WindowFollowsLookback(trends'.boinc, history, clock,
                                           "boinc_credits", CurrentBoinc, w)
                  /\ WindowFollowsLookback(trends'.fah, history, clock,
                                           "fah_score", CurrentFah, w) ]_vars

(* the average the report itself offers, in the order 30 days, 7 days, all time *)
PreferredAverage(bt) ==
    IF "avg_per_day_30d" \in DOMAIN bt THEN Some(bt.avg_per_day_30d)
    ELSE IF "avg_per_day_7d" \in DOMAIN bt THEN Some(bt.avg_per_day_7d)
    ELSE IF "avg_per_day_alltime" \in DOMAIN bt THEN Some(bt.avg_per_day_alltime)
    ELSE None

(* C9, as claimed: the milestones of a report are projected with the 30-day   *)
(* average when the report has one, else the 7-day average, else the all-time *)
(* average, and there is no milestone when that average is missing or <= 0.   *)
C9_PreferredAverageProjects ==
    (ReportReady /\ "milestones" \in DOMAIN trends) =>
      LET chosen == PreferredAverage(trends.boinc)
      IN  IF chosen = None \/ chosen[1] <= 0
          THEN trends.milestones = <<>>
          ELSE \A i \in 1..Len(trends.milestones) :
                 trends.milestones[i].days_to_reach
                   = trends.milestones[i].remaining \div chosen[1]

TargetSet == { milestone_targets[i] : i \in 1..Len(milestone_targets) }

(* C10, as claimed: when the chosen daily average is > 0, calculate_trends    *)
(* returns one projection for every target above the current credits and no   *)
(* other, in ascending order of target, each with remaining = target -        *)
(* current, days_to_reach = remaining floor-divided by the average and        *)
(* estimated_date = today + days_to_reach.                                    *)
C10_OneProjectionPerOpenTarget ==
    [][ (/\ TrendsStep
         /\ ~InsufficientData(history)
         /\ daily_avg(boinc_trends(history, clock, CurrentBoinc)) > 0)
          => /\ pc' = "save"
             /\ LET ms  == trends'.milestones
                    avg == daily_avg(boinc_trends(history, clock, CurrentBoinc))
                IN  /\ { ms[i].target : i \in 1..Len(ms) }
                          = { t \in TargetSet : t > CurrentBoinc }
                    /\ \A i \in 1..Len(ms) - 1 : ms[i].target < ms[i + 1].target
                    /\ \A i \in 1..Len(ms) :
                          /\ ms[i].remaining = ms[i].target - CurrentBoinc
                          /\ ms[i].days_to_reach * avg <= ms[i].remaining
                          /\ ms[i].remaining < (ms[i].days_to_reach + 1) * avg
                          /\ ms[i].estimated_date = clock + ms[i].days_to_reach ]_vars

----------------------------------------------------------------------------
(* Properties of most_active_projects                                         *)

(* the position of a project in the order of current_stats['projects'] *)
OrderIndex(k) == CHOOSE i \in 1..Len(config.project_order) : config.project_order[i] = k

EntriesAtOrBefore(h, d) == { i \in 1..Len(h) : h[i].date <= d }

(* the credits of project k in the latest entry dated at or before d: None   *)
(* without such an entry or without the project in it                        *)
ProjectLookback(h, d, k) ==
    IF EntriesAtOrBefore(h, d) = {} THEN None
    ELSE LET i == CHOOSE j \in EntriesAtOrBefore(h, d) :
                      \A l \in EntriesAtOrBefore(h, d) : l <= j
         IN  GetOpt(Get(h[i], "projects", EmptyDict), k)

(* the projects with a positive current value and a positive 30-day gain *)
Gaining(h, today, stats) ==
    { k \in DOMAIN stats.projects :
        /\ stats.projects[k].credits > 0
        /\ ProjectLookback(h, today - 30, k) # None
        /\ stats.projects[k].credits - ProjectLookback(h, today - 30, k)[1] > 0 }

Gain(h, today, stats, k) ==
    stats.projects[k].credits - ProjectLookback(h, today - 30, k)[1]

(* x comes before y in the ranking: higher gain, or equal gain and met first *)
RanksBefore(gx, kx, gy, ky) ==
    gx > gy \/ (gx = gy /\ OrderIndex(kx) < OrderIndex(ky))

IsRanking(ranked, h, today, stats) ==
    LET gaining == Gaining(h, today, stats)
        n       == Cardinality(gaining)
    IN  /\ Len(ranked) = (IF n < 5 THEN n ELSE 5)
        /\ \A i \in 1..Len(ranked) :
              /\ ranked[i].key \in gaining
              /\ ranked[i].gain_30d = Gain(h, today, stats, ranked[i].key)
        /\ \A i, j \in 1..Len(ranked) :
              i < j => RanksBefore(ranked[i].gain_30d, ranked[i].key,
                                   ranked[j].gain_30d, ranked[j].key)
        /\ \A k \in gaining \ { ranked[i].key : i \in 1..Len(ranked) } :
              \A i \in 1..Len(ranked) :
                 RanksBefore(ranked[i].gain_30d, ranked[i].key, Gain(h, today, stats, k), k)

(* C11: the most_active_projects of a report calculate_trends returns holds   *)
(* exactly the projects of the current snapshot with a positive current value *)
(* and a strictly positive 30-day gain (current value minus the value under   *)
(* the project's key in the lookback entry), by gain descending, equal gains  *)
(* in the order of the snapshot, cut to the first 5.                          *)
C11_MostActiveProjects ==
    [][ (TrendsStep /\ "most_active_projects" \in DOMAIN trends')
          => IsRanking(trends'.most_active_projects, history, clock, current_stats) ]_vars

(* C11, witness: a saved report ranks five projects, two of them with the     *)
(* same gain, and a sixth gaining project is cut off.                         *)
C11_Witness ==
    /\ pc = "done"
    /\ "most_active_projects" \in DOMAIN trends
    /\ Len(trends.most_active_projects) = 5
    /\ \E i \in 1..4 :
          trends.most_active_projects[i].gain_30d = trends.most_active_projects[i + 1].gain_30d
    /\ trends.most_active_projects[1].gain_30d > trends.most_active_projects[5].gain_30d
    /\ Cardinality({ k \in Projects : current_stats.projects[k].credits > 100 }) = 6

----------------------------------------------------------------------------
(* Properties of a lookback that meets an entry without the metric            *)

(* the latest entry of h dated at or before d, for a d that has one *)
LookbackEntry(h, d) ==
    h[CHOOSE j \in EntriesAtOrBefore(h, d) : \A l \in EntriesAtOrBefore(h, d) : l <= j]

(* the lookback of d selects an entry, and that entry has no such metric *)
LookbackLacks(h, d, metric) ==
    /\ EntriesAtOrBefore(h, d) # {}
    /\ metric \notin DOMAIN LookbackEntry(h, d)

RankedKeys(report) ==
    { report.most_active_projects[i].key : i \in 1..Len(report.most_active_projects) }

(* C12, as claimed: in a report calculate_trends returns, a window whose      *)
(* lookback entry has no boinc_credits (no fah_score) adds no delta and no    *)
(* average to the BOINC (Folding@home) part, and a project that is missing    *)
(* from the 30-day lookback entry is not ranked.                              *)
C12_MissingMetricIsAbsent ==
    [][ (TrendsStep /\ "boinc" \in DOMAIN trends')
          => /\ \A w \in Windows :
                  LookbackLacks(history, clock - w, "boinc_credits")
                    => DOMAIN trends'.boinc \cap {LastKey(w), AvgKey(w)} = {}
             /\ \A w \in {7, 30} :
                  LookbackLacks(history, clock - w, "fah_score")
                    => DOMAIN trends'.fah \cap {LastKey(w), AvgKey(w)} = {}
             /\ \A k \in Projects :
                  ProjectLookback(history, clock - 30, k) = None
                    => k \notin RankedKeys(trends') ]_vars

----------------------------------------------------------------------------
(* Properties of the all-time average                                         *)

(* C13: in a report calculate_trends returns, the first entry of the history  *)
(* is its earliest; when today is later than that entry's date the BOINC part *)
(* has avg_per_day_alltime, which is (current value - that entry's value) /   *)
(* (today - that entry's date) rounded to a nearest integer when the entry    *)
(* has the value; when today is that entry's date the average is omitted, so  *)
(* the division is never by 0.                                                *)
C13_AllTimeAverage ==
    [][ (TrendsStep /\ "boinc" \in DOMAIN trends')
          => LET first == history[1]
                 days  == clock - first.date
             IN  /\ \A i \in 1..Len(history) : first.date <= history[i].date
                 /\ days >= 0
                 /\ days = 0 => "avg_per_day_alltime" \notin DOMAIN trends'.boinc
                 /\ days > 0 =>
                       /\ "avg_per_day_alltime" \in DOMAIN trends'.boinc
                       /\ "boinc_credits" \in DOMAIN first
                            => IsRounded(trends'.boinc.avg_per_day_alltime,
                                         CurrentBoinc - first.boinc_credits, days) ]_vars

(* C13, witness: the report of a history whose earliest entry is today's (the *)
(* other entry is dated tomorrow) has a BOINC part without the all-time       *)
(* average.                                                                   *)
C13_Witness ==
    /\ pc = "save"
    /\ Len(history) = 2
    /\ history[1].date = clock
    /\ history[2].date > clock
    /\ "boinc" \in DOMAIN trends
    /\ "avg_per_day_alltime" \notin DOMAIN trends.boinc

----------------------------------------------------------------------------
(* Properties of a configuration without an identity                          *)

(* C14, as claimed: a run whose configuration lacks the user_id of a BOINC    *)
(* project or the Folding@home username does not fail for it: no KeyError     *)
(* escapes, and the run builds its snapshot with every fetch returned, the    *)
(* providers without identity contributing no data.                           *)
C14_MissingIdentityLosesOnlyItself ==
    /\ err # "KeyError"
    /\ pc = "build" =>
          /\ fah_state = "done"
          /\ ~config.fah_username => fah_result = None
          /\ \A p \in Projects :
                /\ boinc_state[p] = "done"
                /\ ~config.projects[p].user_id => boinc_results[p] = None

----------------------------------------------------------------------------
(* Properties of what main saves                                              *)

(* C15: from the return of update_history to the end of save_stats no step    *)
(* of main, the call of calculate_trends included, changes the history or     *)
(* the current snapshot, and save_stats writes exactly that history and that  *)
(* snapshot.                                                                  *)
C15_TrendsLeavesInputs ==
    [][ /\ pc \in {"trends", "save", "save_write"}
            => (history' = history /\ current_stats' = current_stats)
        /\ (pc = "save_write" /\ pc' = "readme")
            => (file'.data.history = history /\ file'.data.current = current_stats) ]_vars

(* C15, witness: a full report has been computed from a history of three      *)
(* entries, and the file holds that history.                                  *)
C15_Witness ==
    /\ pc = "readme"
    /\ Len(history) = 3
    /\ "boinc" \in DOMAIN trends
    /\ file.kind = "json"
    /\ file.data.history = history
    /\ file.data.trends = trends

----------------------------------------------------------------------------
(* Properties of the history that runs build from nothing                     *)

(* C16: in runs that start without a file, are never interrupted while they   *)
(* save and see a clock that never goes back, the history update_history      *)
(* returns has strictly ascending dates, holds one entry for each day on      *)
(* which a run has saved or the present run has made its entry, as far as the *)
(* day is not before today - HISTORY_MAX_DAYS (today as update_history reads  *)
(* it), ends with the present run's entry and has at most                     *)
(* HISTORY_MAX_DAYS + 1 entries; and that history is what the run saves.      *)
C16_HistoryFromNothing ==
    [][ /\ UpdateStep
            => /\ StrictlyAscending(history')
               /\ DatesOf(history') = { d \in ran_days \cup {history_entry.date} :
                                          d >= clock - HISTORY_MAX_DAYS }
               /\ history'[Len(history')] = history_entry
               /\ Len(history') <= HISTORY_MAX_DAYS + 1
        /\ (pc = "save_write" /\ pc' = "readme")
            => (file'.data.history = history /\ history_entry.date \in ran_days') ]_vars

(* C16, witness: the third run has saved; runs have saved on three different  *)
(* days, the first of them more than HISTORY_MAX_DAYS ago, and the file holds *)
(* the two later days.                                                        *)
C16_Witness ==
    /\ pc = "readme"
    /\ runs = 3
    /\ Cardinality(ran_days) = 3
    /\ \E d \in ran_days : d < clock - HISTORY_MAX_DAYS
    /\ file.kind = "json"
    /\ Len(file.data.history) = 2
    /\ DatesOf(file.data.history) = { d \in ran_days : d >= clock - HISTORY_MAX_DAYS }

----------------------------------------------------------------------------
(* Properties of update_readme                                                *)

(* the step of main that calls update_readme *)
ReadmeStep == pc = "readme" /\ pc' = "done"

(* the text after the last occurrence of the piece *)
AfterLast(text, piece) ==
    LET last == CHOOSE i \in 1..Len(text) :
                    text[i] = piece /\ \A j \in (i + 1)..Len(text) : text[j] # piece
    IN  SubSeq(text, last + 1, Len(text))

(* C17, as claimed: update_readme on a README that has both markers, however  *)
(* often, leaves the text before the start marker and the text after the end  *)
(* marker as they were, puts the new section between the markers, and a       *)
(* second update with the same section changes nothing more.                  *)
C17_ReadmeFrameKept ==
    [][ (/\ ReadmeStep
         /\ readme # None
         /\ Contains(readme[1], start_marker)
         /\ Contains(readme[1], end_marker))
          => /\ SplitHead(readme'[1], start_marker) = SplitHead(readme[1], start_marker)
             /\ AfterLast(readme'[1], end_marker) = AfterLast(readme[1], end_marker)
             /\ \E i \in 1..Len(readme'[1]) :
                   SubSeq(readme'[1], i, i + Len(content) + 1)
                     = <<start_marker>> \o content \o <<end_marker>>
             /\ update_readme(readme') = readme' ]_vars

====
